---- MODULE Spec2Model ----
(***************************************************************************)
(* Model of stata_kernel/kernel.py (class StataKernel).                    *)
(*                                                                         *)
(* The kernel is single threaded: the front-end delivers one request at a  *)
(* time.  pc is the position inside the running handler ("idle" between    *)
(* requests, "ret" when it hands its result back); the labels of           *)
(* do_execute are the source lines of kernel.py.                           *)
(* A submission's text is a sequence of lines, a line a sequence of        *)
(* tokens.  CodeManager, StataMagics, StataSession and CompletionsManager  *)
(* are collaborators whose code is outside kernel.py; they are modelled    *)
(* from the specification (sections 4 and 6).                              *)
(***************************************************************************)
EXTENDS Integers, Sequences, FiniteSets, TLC

VARIABLES
    pc,               \* position of the running handler, "idle" when none
    op,               \* the handler running, or the last one that returned
    code,             \* the text held by the running handler (local `code`)
    silent,           \* the `silent` argument of do_execute
    sc_delimit_mode,  \* self.sc_delimit_mode
    execution_count,  \* self.execution_count
    quit_early,       \* self.magics.quit_early
    ic,               \* the CodeManager built by is_complete (line 182)
    cm,               \* the CodeManager of line 58 (local `cm`)
    plan,             \* the triple returned by cm.get_text (line 59)
    rc,               \* the return code of stata.do (line 60)
    return_obj,       \* the local return_obj (lines 66-72)
    result,           \* what the running handler returns to the front-end
    log,              \* the calls made by the running handler, in order
    iopub,            \* messages sent on iopub_socket by the running handler
    stata,            \* the external session: "up" or "down"
    dispatched,       \* the plans the running handler passed to stata.do
    completions,      \* the completion state: "fresh", or "stale" when the
                      \* session has run code since the last refresh
    graphs,           \* graphs exported during the current dispatch
    last_ends,        \* history: the ending mode ("sc" or "cr") of the last
                      \* submission that was chunked, "none" before the first
    last_ends_shown   \* history: the same, over the submissions that were
                      \* not silent

vars == <<pc, op, code, silent, sc_delimit_mode, execution_count, quit_early,
          ic, cm, plan, rc, return_obj, result, log, iopub, stata, dispatched,
          completions, graphs, last_ends, last_ends_shown>>

(***************************************************************************)
(* Bounds of the model.                                                    *)
(***************************************************************************)
MaxLines == 2
MaxExec == 2
MaxGraphs == 1
MaxStmts == 3

(***************************************************************************)
(* Submission texts.                                                       *)
(***************************************************************************)
Lines ==
    { <<"di">>,                    \* a plain command
      <<"if", "{", " ">>,          \* a block opener, whitespace after it
      <<"}">>,                     \* a block closer standing alone
      <<"{", "di", "}">>,          \* braces with text around them: no block
      <<"di", "///">>,             \* a line continuation
      <<"#delimit ;">>,            \* directive: semicolon mode from here on
      <<"#delimit cr">>,           \* directive: newline mode from here on
      <<"%magic">> }               \* a meta-command

Texts == UNION { [1..n -> Lines] : n \in 0..MaxLines }

ErrCodes == {198}
GraphKinds == {"svg", "png", "pdf"}

(***************************************************************************)
(* CodeManager: the tokenizer/chunker (specification section 4.1 and the   *)
(* docstring of do_is_complete).                                           *)
(***************************************************************************)
IsBlank(tok) == tok = " "

\* An opening brace opens a block only when nothing but whitespace follows
\* it on its line.
IsOpener(line) ==
    \E i \in 1..Len(line) :
        /\ line[i] = "{"
        /\ \A j \in (i+1)..Len(line) : IsBlank(line[j])

\* A closing brace closes a block only when it stands alone on its line.
IsCloser(line) ==
    \E i \in 1..Len(line) :
        /\ line[i] = "}"
        /\ \A j \in 1..Len(line) : j # i => IsBlank(line[j])

IsDirective(line) == Len(line) = 1 /\ line[1] \in {"#delimit ;", "#delimit cr"}

IsMagicLine(line) == Len(line) >= 1 /\ line[1] = "%magic"

RECURSIVE BraceDepth(_)
BraceDepth(text) ==
    IF text = <<>> THEN 0
    ELSE LET rest == BraceDepth(SubSeq(text, 1, Len(text) - 1))
             line == text[Len(text)]
         IN  IF IsOpener(line) THEN rest + 1
             ELSE IF IsCloser(line) THEN rest - 1
             ELSE rest

\* The mode in effect at the end of the text: that of the last directive, the
\* starting mode when the text has none.
RECURSIVE EndingMode(_, _)
EndingMode(text, mode) ==
    IF text = <<>> THEN mode
    ELSE LET line == text[Len(text)]
         IN  IF IsDirective(line) THEN line[1] = "#delimit ;"
             ELSE EndingMode(SubSeq(text, 1, Len(text) - 1), mode)

NoCodeManager ==
    [built |-> FALSE, code |-> <<>>, sc_delimit_mode |-> FALSE,
     ends_sc |-> FALSE, is_complete |-> TRUE]

\* CodeManager(code, sc_delimit_mode)
CodeManager(text, mode) ==
    [built |-> TRUE, code |-> text, sc_delimit_mode |-> mode,
     ends_sc |-> EndingMode(text, mode),
     is_complete |-> BraceDepth(text) = 0]

\* The statements of the text: the directive lines are consumed by the
\* chunker, every other line is a statement to run.
Statements(text) == SelectSeq(text, LAMBDA line : ~IsDirective(line))

TokCode(tok) ==
    CASE tok = "di" -> 1 [] tok = "if" -> 2 [] tok = "{" -> 3 [] tok = "}" -> 4
      [] tok = " " -> 5 [] tok = "///" -> 6 [] tok = "%magic" -> 7
      [] OTHER -> 8

HashMod == 97

RECURSIVE LineHash(_, _)
LineHash(line, h) ==
    IF line = <<>> THEN h
    ELSE LineHash(Tail(line), (31 * h + TokCode(Head(line))) % HashMod)

\* The fingerprint of the normalized text.
RECURSIVE Fingerprint(_, _)
Fingerprint(stmts, h) ==
    IF stmts = <<>> THEN h
    ELSE Fingerprint(Tail(stmts), LineHash(Head(stmts), (31 * h + 9) % HashMod))

NoPlan == [text_to_run |-> <<>>, md5 |-> 0, text_to_exclude |-> <<>>]

\* cm.get_text(conf): text_to_run, md5, text_to_exclude
get_text(c) ==
    [text_to_run |-> Statements(c.code),
     md5 |-> Fingerprint(Statements(c.code), 7),
     text_to_exclude |-> <<>>]

\* StataKernel.is_complete(code)
is_complete(text) == CodeManager(text, sc_delimit_mode).is_complete

(***************************************************************************)
(* StataMagics: the magic interceptor (specification sections 2 and 6).    *)
(***************************************************************************)
NoReply == [status |-> "none"]
NotQuit == [set |-> FALSE, response |-> NoReply]

HasMagic(text) == text # <<>> /\ IsMagicLine(text[1])

\* The outcomes of magics.magic(code, kernel): the text to go on with and
\* the value left in magics.quit_early.  Text without a meta-command passes
\* through; a meta-command is either run, or refused, by the interceptor,
\* which then asks to quit early with its response for the front-end, or it
\* is taken off the text.
MagicOutcomes(text) ==
    IF ~HasMagic(text)
    THEN { [code |-> text, quit_early |-> NotQuit] }
    ELSE { [code |-> Tail(text), quit_early |-> NotQuit] }
         \cup { [code |-> <<>>,
                 quit_early |-> [set |-> TRUE,
                                 response |-> [status |-> st]]]
                : st \in {"ok", "error"} }

(***************************************************************************)
(* StataSession: the dispatcher (specification section 4.3).               *)
(***************************************************************************)
\* stata.do(text_to_run, md5, magics, text_to_exclude) sends the statements
\* of the plan to the external process one at a time, in order, and records
\* for each the return code the process gave it.

\* Faulty variant of Halted: the plan goes on after a failed statement.
Halted_never(sent) == FALSE

\* The plan is halted: the statement sent last has failed.
Halted(sent) == sent # <<>> /\ sent[Len(sent)].rc # 0

\* The overall return code: that of the failed statement, zero when every
\* statement sent has completed.
OverallRc(sent) ==
    IF \E i \in DOMAIN sent : sent[i].rc # 0
    THEN LET k == CHOOSE i \in DOMAIN sent :
                     /\ sent[i].rc # 0
                     /\ \A j \in 1..(i - 1) : sent[j].rc = 0
         IN  sent[k].rc
    ELSE 0

(***************************************************************************)
(* StataKernel.__init__, lines 24-35.                                      *)
(***************************************************************************)
\* Faulty variant of InitialMode: the kernel starts in semicolon mode.
InitialMode_sc == TRUE

\* Line 32: self.sc_delimit_mode = False
InitialMode == FALSE

Init ==
    /\ pc = "idle"
    /\ op = "none"
    /\ code = <<>>
    /\ silent = FALSE
    /\ sc_delimit_mode = InitialMode
    /\ execution_count = 0
    /\ quit_early = NotQuit
    /\ ic = NoCodeManager
    /\ cm = NoCodeManager
    /\ plan = NoPlan
    /\ rc = 0
    /\ return_obj = NoReply
    /\ result = NoReply
    /\ log = <<>>
    /\ iopub = <<>>
    /\ stata = "up"
    /\ dispatched = <<>>
    /\ completions = "fresh"
    /\ graphs = 0
    /\ last_ends = "none"
    /\ last_ends_shown = "none"

ModeName(sc) == IF sc THEN "sc" ELSE "cr"

\* The front-end sends a request only to a kernel that is up and idle.
Ready == pc = "idle" /\ stata = "up"

(***************************************************************************)
(* StataKernel.do_execute, lines 37-92.                                    *)
(***************************************************************************)
\* The request arrives; the base class has incremented the execution count
\* of a submission that is not silent (line 65).
ExecuteRequest ==
    /\ Ready
    /\ \E text \in Texts, s \in BOOLEAN :
        /\ ~s => execution_count < MaxExec
        /\ code' = text
        /\ silent' = s
        /\ execution_count' = IF s THEN execution_count ELSE execution_count + 1
    /\ pc' = "L47"
    /\ op' = "do_execute"
    /\ UNCHANGED <<sc_delimit_mode, quit_early, ic, cm, plan, rc, return_obj,
                   result, log, iopub, stata, dispatched, completions, graphs,
                   last_ends, last_ends_shown>>

\* Line 48: the reply to a submission that is not complete.
IncompleteReply(count) == [status |-> "error", execution_count |-> count]

\* Faulty variant of L47: the submission is not validated.
L47_unchecked ==
    /\ pc = "L47"
    /\ ic' = CodeManager(code, sc_delimit_mode)
    /\ pc' = "L51"
    /\ log' = log \o <<"read", "CodeManager">>
    /\ UNCHANGED <<op, code, silent, sc_delimit_mode, execution_count,
                   quit_early, cm, plan, rc, return_obj, result, iopub, stata,
                   dispatched, completions, graphs, last_ends,
                   last_ends_shown>>

\* Lines 47-48: if not self.is_complete(code): return {...}
L47 ==
    /\ pc = "L47"
    /\ ic' = CodeManager(code, sc_delimit_mode)
    /\ IF is_complete(code)
       THEN /\ pc' = "L51"
            /\ log' = log \o <<"read", "CodeManager">>
            /\ result' = result
       ELSE /\ pc' = "ret"
            /\ log' = log \o <<"read", "CodeManager", "return">>
            /\ result' = IncompleteReply(execution_count)
    /\ UNCHANGED <<op, code, silent, sc_delimit_mode, execution_count,
                   quit_early, cm, plan, rc, return_obj, iopub, stata,
                   dispatched, completions, graphs, last_ends,
                   last_ends_shown>>

\* Line 51: code = self.magics.magic(code, self)
L51 ==
    /\ pc = "L51"
    /\ \E o \in MagicOutcomes(code) :
        /\ code' = o.code
        /\ quit_early' = o.quit_early
    /\ log' = Append(log, "magic")
    /\ pc' = "L54"
    /\ UNCHANGED <<op, silent, sc_delimit_mode, execution_count, ic, cm, plan,
                   rc, return_obj, result, iopub, stata, dispatched,
                   completions, graphs, last_ends, last_ends_shown>>

\* Faulty variant of QuitEarly: the interceptor's request is ignored.
QuitEarly_never(q) == FALSE

\* Line 54: if self.magics.quit_early
QuitEarly(q) == q.set

\* Lines 54-55: if self.magics.quit_early: return self.magics.quit_early
L54 ==
    /\ pc = "L54"
    /\ IF QuitEarly(quit_early)
       THEN /\ pc' = "ret"
            /\ result' = quit_early.response
            /\ log' = Append(log, "return")
       ELSE /\ pc' = "L58"
            /\ UNCHANGED <<result, log>>
    /\ UNCHANGED <<op, code, silent, sc_delimit_mode, execution_count,
                   quit_early, ic, cm, plan, rc, return_obj, iopub, stata,
                   dispatched, completions, graphs, last_ends,
                   last_ends_shown>>

\* Lines 58-59: cm = CodeManager(code, self.sc_delimit_mode); cm.get_text
L58 ==
    /\ pc = "L58"
    /\ cm' = CodeManager(code, sc_delimit_mode)
    /\ plan' = get_text(cm')
    /\ log' = log \o <<"read", "CodeManager", "get_text">>
    /\ pc' = "L60"
    /\ UNCHANGED <<op, code, silent, sc_delimit_mode, execution_count,
                   quit_early, ic, rc, return_obj, result, iopub, stata,
                   dispatched, completions, graphs, last_ends,
                   last_ends_shown>>

\* Faulty variant of DoArgs: the fingerprint is not handed over.
DoArgs_nomd5(p) == [p EXCEPT !.md5 = 0]

\* Line 60: the arguments text_to_run, md5 and text_to_exclude of stata.do
DoArgs(p) == p

\* Line 60: rc, res = self.stata.do(text_to_run, md5, self.magics, ...),
\* the call
L60 ==
    /\ pc = "L60"
    /\ dispatched' = Append(dispatched, [plan |-> DoArgs(plan), sent |-> <<>>])
    /\ completions' = "stale"
    /\ log' = Append(log, "do")
    /\ pc' = "do"
    /\ UNCHANGED <<op, code, silent, sc_delimit_mode, execution_count,
                   quit_early, ic, cm, plan, rc, return_obj, result, iopub,
                   stata, graphs, last_ends, last_ends_shown>>

\* Inside stata.do: the next statement of the plan is sent to the external
\* process, which completes it or fails it.
do_send ==
    /\ pc = "do"
    /\ LET d == dispatched[Len(dispatched)]
           k == Len(d.sent) + 1
       IN  /\ ~Halted(d.sent)
           /\ k <= Len(d.plan.text_to_run)
           /\ \E r \in {0} \cup ErrCodes :
                 dispatched' =
                     [dispatched EXCEPT ![Len(dispatched)].sent =
                         Append(d.sent, [stmt |-> d.plan.text_to_run[k],
                                         rc |-> r])]
    /\ UNCHANGED <<pc, op, code, silent, sc_delimit_mode, execution_count,
                   quit_early, ic, cm, plan, rc, return_obj, result, log,
                   iopub, stata, completions, graphs, last_ends,
                   last_ends_shown>>

\* stata.do returns rc to line 60 when the plan is halted or exhausted.
do_return ==
    /\ pc = "do"
    /\ LET d == dispatched[Len(dispatched)]
       IN  /\ Halted(d.sent) \/ Len(d.sent) = Len(d.plan.text_to_run)
           /\ rc' = OverallRc(d.sent)
    /\ pc' = "L63"
    /\ UNCHANGED <<op, code, silent, sc_delimit_mode, execution_count,
                   quit_early, ic, cm, plan, return_obj, result, log, iopub,
                   stata, dispatched, completions, graphs, last_ends,
                   last_ends_shown>>

\* Faulty variant of ReturnObj: only the return code 1 counts as an error.
ReturnObj_rc1(count, r) ==
    IF r = 1
    THEN [execution_count |-> count, status |-> "error"]
    ELSE [execution_count |-> count, status |-> "ok", payload |-> <<>>,
          user_expressions |-> <<>>]

\* Lines 66-72: the return object of a dispatched submission.
ReturnObj(count, r) ==
    IF r # 0
    THEN [execution_count |-> count, status |-> "error"]
    ELSE [execution_count |-> count, status |-> "ok", payload |-> <<>>,
          user_expressions |-> <<>>]

\* Faulty variant of L63: magics.post runs only after a clean dispatch.
L63_post_on_success ==
    /\ pc = "L63"
    /\ log' = (IF rc = 0 THEN Append(log, "post") ELSE log)
    /\ return_obj' = ReturnObj(execution_count, rc)
    /\ pc' = "L74"
    /\ UNCHANGED <<op, code, silent, sc_delimit_mode, execution_count,
                   quit_early, ic, cm, plan, rc, result, iopub, stata,
                   dispatched, completions, graphs, last_ends,
                   last_ends_shown>>

\* Lines 63-72: self.magics.post(self); return_obj = {...}
L63 ==
    /\ pc = "L63"
    /\ log' = Append(log, "post")
    /\ return_obj' = ReturnObj(execution_count, rc)
    /\ pc' = "L74"
    /\ UNCHANGED <<op, code, silent, sc_delimit_mode, execution_count,
                   quit_early, ic, cm, plan, rc, result, iopub, stata,
                   dispatched, completions, graphs, last_ends,
                   last_ends_shown>>

\* Faulty variant of L74: the silent branch assigns the mode too.
L74_persisting ==
    /\ pc = "L74"
    /\ IF silent
       THEN /\ sc_delimit_mode' = cm.ends_sc
            /\ completions' = "fresh"
            /\ log' = log \o <<"write", "refresh", "return">>
            /\ result' = return_obj
            /\ last_ends' = ModeName(cm.ends_sc)
            /\ pc' = "ret"
       ELSE /\ pc' = "L82"
            /\ UNCHANGED <<sc_delimit_mode, completions, log, result, last_ends>>
    /\ UNCHANGED <<op, code, silent, execution_count, quit_early, ic, cm,
                   plan, rc, return_obj, iopub, stata, dispatched, graphs,
                   last_ends_shown>>

\* Faulty variant of L74: the silent branch runs the comparison of line 82.
L74_notifying ==
    /\ pc = "L74"
    /\ IF silent
       THEN /\ completions' = "fresh"
            /\ log' = log \o (IF cm.ends_sc # sc_delimit_mode
                               THEN <<"read", "notify">> ELSE <<"read">>)
                           \o <<"refresh", "return">>
            /\ iopub' = (IF cm.ends_sc # sc_delimit_mode
                         THEN Append(iopub, [msg_type |-> "stream",
                                             name |-> "stdout",
                                             text |-> <<"delimiter now",
                                                        IF cm.ends_sc THEN ";"
                                                        ELSE "cr">>])
                         ELSE iopub)
            /\ result' = return_obj
            /\ last_ends' = ModeName(cm.ends_sc)
            /\ pc' = "ret"
       ELSE /\ pc' = "L82"
            /\ UNCHANGED <<completions, log, iopub, result, last_ends>>
    /\ UNCHANGED <<op, code, silent, sc_delimit_mode, execution_count,
                   quit_early, ic, cm, plan, rc, return_obj, stata,
                   dispatched, graphs, last_ends_shown>>

\* Faulty variant of L74: the silent branch returns without the refresh.
L74_norefresh ==
    /\ pc = "L74"
    /\ IF silent
       THEN /\ log' = Append(log, "return")
            /\ result' = return_obj
            /\ last_ends' = ModeName(cm.ends_sc)
            /\ pc' = "ret"
       ELSE /\ pc' = "L82"
            /\ UNCHANGED <<log, result, last_ends>>
    /\ UNCHANGED <<op, code, silent, sc_delimit_mode, execution_count,
                   quit_early, ic, cm, plan, rc, return_obj, iopub, stata,
                   dispatched, completions, graphs, last_ends_shown>>

\* Lines 74-77: if silent: self.completions.refresh(self); return return_obj
L74 ==
    /\ pc = "L74"
    /\ IF silent
       THEN /\ completions' = "fresh"
            /\ log' = log \o <<"refresh", "return">>
            /\ result' = return_obj
            /\ last_ends' = ModeName(cm.ends_sc)
            /\ pc' = "ret"
       ELSE /\ pc' = "L82"
            /\ UNCHANGED <<completions, log, result, last_ends>>
    /\ UNCHANGED <<op, code, silent, sc_delimit_mode, execution_count,
                   quit_early, ic, cm, plan, rc, return_obj, iopub, stata,
                   dispatched, graphs, last_ends_shown>>

\* Faulty variant of DelimiterChanged: the ending mode alone decides.
DelimiterChanged_ends(c, mode) == c.ends_sc

\* Line 82: if cm.ends_sc != self.sc_delimit_mode
DelimiterChanged(c, mode) == c.ends_sc # mode

\* Lines 83-87: the stream message naming the new delimiter.
DelimiterMessage(c) ==
    [msg_type |-> "stream", name |-> "stdout",
     text |-> <<"delimiter now", IF c.ends_sc THEN ";" ELSE "cr">>]

\* Lines 82-87
L82 ==
    /\ pc = "L82"
    /\ IF DelimiterChanged(cm, sc_delimit_mode)
       THEN /\ iopub' = Append(iopub, DelimiterMessage(cm))
            /\ log' = log \o <<"read", "notify">>
       ELSE /\ iopub' = iopub
            /\ log' = Append(log, "read")
    /\ pc' = "L88"
    /\ UNCHANGED <<op, code, silent, sc_delimit_mode, execution_count,
                   quit_early, ic, cm, plan, rc, return_obj, result, stata,
                   dispatched, completions, graphs, last_ends,
                   last_ends_shown>>

\* Faulty variant of PersistedMode: the starting mode is written back.
PersistedMode_start(c) == c.sc_delimit_mode

\* Line 88: the value assigned to self.sc_delimit_mode
\* Faulty variant of PersistedMode: the mode is kept when the dispatch failed.
PersistedMode_on_success(c) == IF rc = 0 THEN c.ends_sc ELSE c.sc_delimit_mode

PersistedMode(c) == c.ends_sc

\* Lines 88-92: self.sc_delimit_mode = cm.ends_sc;
\* self.completions.refresh(self); return return_obj
L88 ==
    /\ pc = "L88"
    /\ sc_delimit_mode' = PersistedMode(cm)
    /\ completions' = "fresh"
    /\ log' = log \o <<"write", "refresh", "return">>
    /\ result' = return_obj
    /\ last_ends' = ModeName(cm.ends_sc)
    /\ last_ends_shown' = ModeName(cm.ends_sc)
    /\ pc' = "ret"
    /\ UNCHANGED <<op, code, silent, execution_count, quit_early, ic, cm,
                   plan, rc, return_obj, iopub, stata, dispatched, graphs>>

(***************************************************************************)
(* StataKernel.send_image, lines 94-142: called by the session for every   *)
(* graph the running dispatch exported.                                    *)
(***************************************************************************)
ImageMessage(kind) ==
    [msg_type |-> "display_data",
     mime |-> IF kind = "svg" THEN "image/svg+xml" ELSE "image/png"]

send_image ==
    /\ pc = "do"
    /\ graphs < MaxGraphs
    /\ graphs' = graphs + 1
    /\ \E kind \in GraphKinds :
        iopub' = IF kind \in {"svg", "png"}
                 THEN Append(iopub, ImageMessage(kind))
                 ELSE iopub
    /\ log' = Append(log, "send_image")
    /\ UNCHANGED <<pc, op, code, silent, sc_delimit_mode, execution_count,
                   quit_early, ic, cm, plan, rc, return_obj, result, stata,
                   dispatched, completions, last_ends, last_ends_shown>>

(***************************************************************************)
(* StataKernel.do_shutdown, lines 144-152.                                 *)
(***************************************************************************)
do_shutdown ==
    /\ Ready
    /\ \E restart \in BOOLEAN : result' = [restart |-> restart]
    /\ stata' = "down"
    /\ op' = "do_shutdown"
    /\ log' = <<"shutdown", "return">>
    /\ pc' = "ret"
    /\ UNCHANGED <<code, silent, sc_delimit_mode, execution_count, quit_early,
                   ic, cm, plan, rc, return_obj, iopub, dispatched,
                   completions, graphs, last_ends, last_ends_shown>>

(***************************************************************************)
(* StataKernel.do_is_complete, lines 154-166.                              *)
(***************************************************************************)
\* Faulty variant of IsCompleteReply: the two replies are exchanged.
IsCompleteReply_swapped(complete) ==
    IF ~complete THEN [status |-> "complete"]
    ELSE [status |-> "incomplete", indent |-> "    "]

\* Lines 163-166
IsCompleteReply(complete) ==
    IF complete THEN [status |-> "complete"]
    ELSE [status |-> "incomplete", indent |-> "    "]

\* Faulty variant of do_is_complete: the check persists the ending mode.
do_is_complete_persisting ==
    /\ Ready
    /\ \E text \in Texts :
        /\ ic' = CodeManager(text, sc_delimit_mode)
        /\ result' = IsCompleteReply(is_complete(text))
        /\ sc_delimit_mode' = ic'.ends_sc
    /\ op' = "do_is_complete"
    /\ log' = <<"read", "CodeManager", "return">>
    /\ pc' = "ret"
    /\ UNCHANGED <<code, silent, execution_count, quit_early, cm, plan, rc,
                   return_obj, iopub, stata, dispatched, completions, graphs,
                   last_ends, last_ends_shown>>

do_is_complete ==
    /\ Ready
    /\ \E text \in Texts :
        /\ ic' = CodeManager(text, sc_delimit_mode)
        /\ result' = IsCompleteReply(is_complete(text))
    /\ op' = "do_is_complete"
    /\ log' = <<"read", "CodeManager", "return">>
    /\ pc' = "ret"
    /\ UNCHANGED <<code, silent, sc_delimit_mode, execution_count, quit_early,
                   cm, plan, rc, return_obj, iopub, stata, dispatched,
                   completions, graphs, last_ends, last_ends_shown>>

(***************************************************************************)
(* StataKernel.do_complete, lines 168-179.                                 *)
(***************************************************************************)
do_complete ==
    /\ Ready
    /\ \E text \in Texts, cursor_pos \in 0..MaxLines :
        /\ cursor_pos <= Len(text)
        /\ \E pos \in 0..cursor_pos :
            result' = [status |-> "ok", cursor_start |-> pos,
                       cursor_end |-> cursor_pos, matches |-> completions]
    /\ op' = "do_complete"
    /\ log' = <<"read", "get_env", "get", "return">>
    /\ pc' = "ret"
    /\ UNCHANGED <<code, silent, sc_delimit_mode, execution_count, quit_early,
                   ic, cm, plan, rc, return_obj, iopub, stata, dispatched,
                   completions, graphs, last_ends, last_ends_shown>>

(***************************************************************************)
(* The handler returns: its result goes to the front-end, its locals and   *)
(* the record of what it did are dropped, the kernel is idle again.        *)
(***************************************************************************)
Return ==
    /\ pc = "ret"
    /\ pc' = "idle"
    /\ op' = "none"
    /\ code' = <<>>
    /\ silent' = FALSE
    /\ ic' = NoCodeManager
    /\ cm' = NoCodeManager
    /\ plan' = NoPlan
    /\ rc' = 0
    /\ return_obj' = NoReply
    /\ result' = NoReply
    /\ log' = <<>>
    /\ iopub' = <<>>
    /\ dispatched' = <<>>
    /\ graphs' = 0
    /\ UNCHANGED <<sc_delimit_mode, execution_count, quit_early, stata,
                   completions, last_ends, last_ends_shown>>

Next ==
    \/ ExecuteRequest
    \/ L47
    \/ L51
    \/ L54
    \/ L58
    \/ L60
    \/ do_send
    \/ do_return
    \/ L63
    \/ L74
    \/ L82
    \/ L88
    \/ send_image
    \/ do_shutdown
    \/ do_is_complete
    \/ do_complete
    \/ Return

Spec == Init /\ [][Next]_vars

(***************************************************************************)
(* The kernel at line 60 of its first submission, a text of up to MaxStmts *)
(* statements that holds no directive, no block and no meta-command: the   *)
(* state lines 47-59 leave when do_execute is given such a text.           *)
(***************************************************************************)
StmtLines == { <<"di">>, <<"di", "///">>, <<"{", "di", "}">> }

StmtTexts == UNION { [1..n -> StmtLines] : n \in 1..MaxStmts }

DispatchInit ==
    /\ pc = "L60"
    /\ op = "do_execute"
    /\ code \in StmtTexts
    /\ silent \in BOOLEAN
    /\ sc_delimit_mode = InitialMode
    /\ execution_count = (IF silent THEN 0 ELSE 1)
    /\ quit_early = NotQuit
    /\ ic = CodeManager(code, InitialMode)
    /\ cm = CodeManager(code, InitialMode)
    /\ plan = get_text(cm)
    /\ rc = 0
    /\ return_obj = NoReply
    /\ result = NoReply
    /\ log = <<"read", "CodeManager", "magic", "read", "CodeManager",
               "get_text">>
    /\ iopub = <<>>
    /\ stata = "up"
    /\ dispatched = <<>>
    /\ completions = "fresh"
    /\ graphs = 0
    /\ last_ends = "none"
    /\ last_ends_shown = "none"

DispatchSpec == DispatchInit /\ [][Next]_vars

Labels ==
    {"idle", "L47", "L51", "L54", "L58", "L60", "do", "L63", "L74", "L82",
     "L88", "ret"}

TypeOK ==
    /\ pc \in Labels
    /\ code \in Texts \cup StmtTexts
    /\ silent \in BOOLEAN
    /\ sc_delimit_mode \in BOOLEAN
    /\ execution_count \in 0..MaxExec
    /\ Len(dispatched) <= 1
    /\ graphs \in 0..MaxGraphs

(***************************************************************************)
(* Properties.                                                             *)
(***************************************************************************)
Count(seq, e) == Len(SelectSeq(seq, LAMBDA x : x = e))
InLog(e) == \E i \in DOMAIN log : log[i] = e

\* The running handler is do_execute and is handing back its result.
ExecuteReturns == pc = "ret" /\ op = "do_execute"

\* The submission of the running do_execute was chunked and dispatched.
Dispatched == cm.built /\ Len(dispatched) = 1

\* The delimiter notifications the running handler has sent.
Notifications == SelectSeq(iopub, LAMBDA m : m.msg_type = "stream")

\* C1, as claimed: after every do_execute call whose text is complete and not
\* intercepted by a magic, sc_delimit_mode equals the chunker's ending mode.
C1_AsClaimed ==
    (ExecuteReturns /\ cm.built) => sc_delimit_mode = cm.ends_sc

\* C1, amended: sc_delimit_mode changes only in the assignment of line 88 of a
\* do_execute call that chunked its text and is not silent; such a call
\* returns with sc_delimit_mode equal to the chunker's ending mode, and every
\* other do_execute call (incomplete text, intercepted by a magic, or silent)
\* returns with the mode it started with.
C1_ModeWrittenAtEndOfChunking ==
    [][ /\ sc_delimit_mode' # sc_delimit_mode
            => pc = "L88" /\ op = "do_execute" /\ cm.built /\ ~silent
        /\ (pc # "ret" /\ pc' = "ret" /\ op' = "do_execute")
            => IF cm'.built /\ ~silent'
               THEN sc_delimit_mode' = cm'.ends_sc
               ELSE sc_delimit_mode' = ic'.sc_delimit_mode ]_vars

\* A submission that is not silent switched the mode to semicolon.
C1_Witness ==
    /\ ExecuteReturns /\ cm.built /\ ~silent
    /\ ~cm.sc_delimit_mode /\ cm.ends_sc /\ sc_delimit_mode

\* C2, as claimed: every submission is checked for completeness and chunked
\* in the ending mode of the most recent previously chunked submission,
\* newline mode for the first.
C2_AsClaimed ==
    /\ (op = "do_execute" /\ pc \notin {"idle", "L47", "ret"})
        => /\ ic.sc_delimit_mode = (last_ends = "sc")
           /\ cm.built => cm.sc_delimit_mode = (last_ends = "sc")
    /\ (op = "do_is_complete" /\ pc = "ret")
        => ic.sc_delimit_mode = (last_ends = "sc")

\* The text has no mode directive.
NoDirective(text) == \A i \in DOMAIN text : ~IsDirective(text[i])

\* C2, amended: every submission is checked for completeness and chunked in
\* the ending mode of the most recent previously chunked submission that was
\* not silent, newline mode when there is none; once such a submission ends
\* in semicolon mode, a following submission without a mode directive is
\* chunked in semicolon mode and ends in it.
C2_ModePersistence ==
    /\ (op = "do_execute" /\ pc \notin {"idle", "L47", "ret"})
        => /\ ic.sc_delimit_mode = (last_ends_shown = "sc")
           /\ cm.built =>
                /\ cm.sc_delimit_mode = (last_ends_shown = "sc")
                /\ NoDirective(cm.code) => cm.ends_sc = (last_ends_shown = "sc")
    /\ (op = "do_is_complete" /\ pc = "ret")
        => ic.sc_delimit_mode = (last_ends_shown = "sc")

\* A submission without a directive is chunked in the semicolon mode that an
\* earlier submission left.
C2_Witness ==
    /\ op = "do_execute" /\ pc = "L60"
    /\ last_ends_shown = "sc"
    /\ cm.code # <<>> /\ NoDirective(cm.code)
    /\ cm.sc_delimit_mode /\ cm.ends_sc

\* C3, as claimed: a submission emits the delimiter notification whenever,
\* and only when, its ending mode differs from its starting mode.
C3_AsClaimed ==
    (ExecuteReturns /\ cm.built)
        => (Notifications # <<>> <=> cm.ends_sc # cm.sc_delimit_mode)

\* C3, amended: a submission emits the delimiter notification whenever, and
\* only when, it is dispatched, is not silent, and its ending mode differs
\* from its starting mode; the message is a stdout stream message naming the
\* new mode; the returned status is that of the return code either way.
C3_DelimiterNotification ==
    ExecuteReturns =>
        /\ Notifications =
              IF cm.built /\ ~silent /\ cm.ends_sc # cm.sc_delimit_mode
              THEN << [msg_type |-> "stream", name |-> "stdout",
                       text |-> IF cm.ends_sc THEN <<"delimiter now", ";">>
                                ELSE <<"delimiter now", "cr">>] >>
              ELSE <<>>
        /\ cm.built => result.status = IF rc = 0 THEN "ok" ELSE "error"

\* A submission that switches back to newline mode announces "cr" and fails.
C3_Witness ==
    /\ ExecuteReturns /\ cm.built /\ ~silent
    /\ cm.sc_delimit_mode /\ ~cm.ends_sc
    /\ Notifications # <<>>
    /\ result.status = "error"

\* C4: a dispatched submission returns status "error" whenever rc is not
\* zero, and status "ok", with an empty payload and empty user_expressions,
\* only when rc is zero, silent or not; its return object carries the
\* execution count.
C4_StatusFollowsReturnCode ==
    (ExecuteReturns /\ Dispatched) =>
        /\ rc # 0 => result.status = "error"
        /\ result.status \in {"ok", "error"}
        /\ result.status = "ok" =>
              /\ rc = 0
              /\ result.payload = <<>>
              /\ result.user_expressions = <<>>
        /\ "execution_count" \in DOMAIN result
        /\ result.execution_count = execution_count

\* A silent submission whose dispatch failed with a return code other than 1.
C4_Witness ==
    /\ ExecuteReturns /\ Dispatched /\ silent
    /\ rc = 198 /\ result.status = "error"

\* C5: when magics.quit_early is set after magics.magic, do_execute returns
\* the interceptor's response and nothing of the core runs: no chunking, no
\* dispatch, no magics.post, no completions refresh, no notification, and
\* sc_delimit_mode keeps the value it had.
C5_InterceptedBypassesCore ==
    (op = "do_execute" /\ InLog("magic") /\ quit_early.set) =>
        /\ pc \in {"L54", "ret"}
        /\ ~cm.built /\ plan = NoPlan
        /\ dispatched = <<>>
        /\ Notifications = <<>>
        /\ \A e \in {"get_text", "do", "post", "refresh", "notify", "write"} :
              ~InLog(e)
        /\ completions = "fresh"
        /\ sc_delimit_mode = ic.sc_delimit_mode
        /\ pc = "ret" => result = quit_early.response

\* An intercepted submission returns the interceptor's error response while
\* the kernel is in semicolon mode.
C5_Witness ==
    /\ ExecuteReturns /\ InLog("magic") /\ quit_early.set
    /\ result.status = "error" /\ sc_delimit_mode

\* C6, as claimed: in do_execute no tokenizer (CodeManager) work is done on a
\* submission's text before magics.magic has scanned it, and text with a
\* meta-command never reaches the tokenizer.
C6_AsClaimed ==
    op = "do_execute" =>
        /\ \A i \in DOMAIN log :
              log[i] \in {"CodeManager", "get_text"}
                  => \E j \in 1..(i - 1) : log[j] = "magic"
        /\ ic.built => ~HasMagic(ic.code)
        /\ cm.built => ~HasMagic(cm.code)

\* C7, as claimed: do_execute and do_is_complete report a submission with
\* unterminated braces with the status "incomplete", never with "error".
C7_AsClaimed ==
    (pc = "ret" /\ op \in {"do_execute", "do_is_complete"}
        /\ ic.built /\ ~ic.is_complete)
        => result.status = "incomplete"

\* C8: a completeness check (do_is_complete, or the is_complete call of line
\* 47) dispatches nothing, sends nothing, refreshes nothing and leaves
\* sc_delimit_mode and every other piece of kernel state as it was, so the
\* kernel a later do_execute finds is the one it would have found without
\* the check.
C8_CompletenessCheckHasNoEffect ==
    [][ /\ ((pc = "idle" /\ op' = "do_is_complete") \/ pc = "L47")
            => UNCHANGED <<sc_delimit_mode, execution_count, quit_early,
                           stata, dispatched, completions, iopub, cm, plan,
                           rc, last_ends, last_ends_shown>>
        /\ (pc = "ret" /\ op = "do_is_complete")
            => /\ pc' = "idle"
               /\ UNCHANGED <<sc_delimit_mode, execution_count, quit_early,
                              stata, completions, last_ends, last_ends_shown>>
      ]_vars

\* Between two submissions, a completeness check of a text that ends in
\* semicolon mode has left the kernel in newline mode.
C8_Witness ==
    /\ pc = "ret" /\ op = "do_is_complete"
    /\ execution_count > 0
    /\ ic.ends_sc /\ ~sc_delimit_mode
    /\ result.status = "incomplete"

\* The lines that open a block, and those that close one.
OpeningLines(text) == {i \in DOMAIN text : IsOpener(text[i])}
ClosingLines(text) == {i \in DOMAIN text : IsCloser(text[i])}

ReadsOf(l) == {i \in DOMAIN l : l[i] = "read"}
WritesOf(l) == {i \in DOMAIN l : l[i] = "write"}
ChunkingsOf(l) == {i \in DOMAIN l : l[i] = "get_text"}

\* C10, as claimed: a do_execute call reads sc_delimit_mode one time and
\* assigns it one time.
C10_AsClaimed ==
    ExecuteReturns =>
        /\ Cardinality(ReadsOf(log)) = 1
        /\ Cardinality(WritesOf(log)) = 1

\* C10, amended: a do_execute call assigns sc_delimit_mode at most once, after
\* chunking has completed and after its last read of it: once when the
\* submission is dispatched and not silent, not at all otherwise.  It reads
\* sc_delimit_mode before chunking starts, and one to three times in all:
\* for the completeness check, again to build the chunker, and again for the
\* delimiter comparison of a submission that is not silent.
C10_ReadsThenOneWrite ==
    op = "do_execute" =>
        /\ Cardinality(WritesOf(log)) <= 1
        /\ \A w \in WritesOf(log) :
              /\ \A r \in ReadsOf(log) : r < w
              /\ \E g \in ChunkingsOf(log) : g < w
        /\ \A g \in ChunkingsOf(log) : \E r \in ReadsOf(log) : r < g
        /\ pc = "ret" =>
              /\ Cardinality(WritesOf(log)) =
                    IF cm.built /\ ~silent THEN 1 ELSE 0
              /\ Cardinality(ReadsOf(log)) =
                    IF ~cm.built THEN 1 ELSE IF silent THEN 2 ELSE 3

\* A dispatched submission that is not silent: three reads, then the write.
C10_Witness ==
    /\ ExecuteReturns /\ cm.built /\ ~silent
    /\ Cardinality(ReadsOf(log)) = 3
    /\ Cardinality(WritesOf(log)) = 1

\* The number of times the running handler has made the call e.
Calls(e) == Count(log, e)

\* The position in the log of the call e, made once.
At(e) == CHOOSE i \in DOMAIN log : log[i] = e

\* The delimiter mode the running do_execute call found on entry.
EntryMode == IF InLog("write") THEN cm.sc_delimit_mode ELSE sc_delimit_mode

\* C11: a do_execute call whose dispatch returns rc = 0 invokes
\* completions.refresh exactly once, after the dispatch has returned and
\* before do_execute returns, silent or not; a submission that is intercepted
\* by a magic or rejected as incomplete invokes it never.
C11_RefreshAfterDispatch ==
    op = "do_execute" =>
        /\ (pc = "ret" /\ Dispatched /\ rc = 0) =>
              /\ Calls("refresh") = 1
              /\ Calls("do") = 1
              /\ At("do") < At("refresh")
              /\ At("refresh") < At("return")
        /\ pc \in {"L47", "L51", "L54", "L58", "L60", "do"} => Calls("refresh") = 0
        /\ ~cm.built => Calls("refresh") = 0

\* A silent submission ran without error and refreshed the completions.
C11_Witness ==
    /\ ExecuteReturns /\ Dispatched /\ silent /\ rc = 0
    /\ plan.text_to_run # <<>>
    /\ Calls("refresh") = 1 /\ completions = "fresh"

\* C12: the triple (text_to_run, md5, text_to_exclude) that get_text returned
\* for the submission is the one passed to stata.do, unmodified, in exactly
\* one call, and it is the plan of this submission's text, not an earlier
\* one's.
C12_PlanPassedOnceUnmodified ==
    op = "do_execute" =>
        /\ Len(dispatched) <= 1
        /\ Len(dispatched) = Calls("do")
        /\ Calls("get_text") <= 1
        /\ dispatched # <<>> =>
              /\ Calls("get_text") = 1
              /\ At("get_text") < At("do")
              /\ dispatched[1].plan = plan
              /\ cm.code = code
        /\ (pc = "ret" /\ cm.built) =>
              /\ Len(dispatched) = 1
              /\ dispatched[1].plan = get_text(CodeManager(code, EntryMode))

\* The second dispatched submission of a session handed over its own plan.
C12_Witness ==
    /\ ExecuteReturns /\ Dispatched
    /\ last_ends # "none"
    /\ Len(dispatched[1].plan.text_to_run) = 2
    /\ dispatched[1].plan.md5 # 0

CompletedIn(sent) == {i \in DOMAIN sent : sent[i].rc = 0}
FailedIn(sent) == {i \in DOMAIN sent : sent[i].rc # 0}

\* C13: when a plan is dispatched and statement k is the first to fail, the
\* statements before k were sent in order and completed, no statement after
\* k is sent, and the overall return code is not zero (status "error"); the
\* overall return code is zero only if every statement of the plan
\* completed.  Of three statements with the second failing, one completed,
\* one failed and one was not attempted.
C13_HaltOnFirstError ==
    (op = "do_execute" /\ dispatched # <<>>) =>
        LET d == dispatched[1]
            n == Len(d.plan.text_to_run)
        IN  /\ Len(d.sent) <= n
            /\ \A i \in DOMAIN d.sent : d.sent[i].stmt = d.plan.text_to_run[i]
            /\ \A i \in FailedIn(d.sent) : i = Len(d.sent)
            /\ pc # "do" =>
                  /\ rc = 0 <=> FailedIn(d.sent) = {}
                  /\ rc = 0 => Cardinality(CompletedIn(d.sent)) = n
                  /\ rc # 0 => rc = d.sent[Len(d.sent)].rc
                  /\ (n = 3 /\ 2 \in FailedIn(d.sent)) =>
                        /\ Cardinality(CompletedIn(d.sent)) = 1
                        /\ Cardinality(FailedIn(d.sent)) = 1
                        /\ n - Len(d.sent) = 1
            /\ (pc = "ret" /\ rc # 0) => result.status = "error"

\* Three statements, the second failed: the call returns "error".
C13_Witness ==
    /\ ExecuteReturns /\ Dispatched
    /\ Len(dispatched[1].plan.text_to_run) = 3
    /\ Len(dispatched[1].sent) = 2
    /\ dispatched[1].sent[2].rc # 0
    /\ result.status = "error"

\* C14: do_execute(text) returns at once, with no call of magics.magic,
\* CodeManager.get_text, stata.do, magics.post or completions.refresh and
\* with sc_delimit_mode unchanged, exactly when do_is_complete(text) in the
\* same state would reply "incomplete"; otherwise it goes on to the magic
\* scan.
C14_IncompleteRejectedBeforeMagics ==
    (op = "do_execute" /\ pc \notin {"idle", "L47"}) =>
        LET reply == IsCompleteReply(ic.is_complete)
        IN  /\ (pc = "L51" \/ (pc = "ret" /\ Calls("magic") = 0)) =>
                  ic = CodeManager(ic.code, EntryMode)
            /\ ic.sc_delimit_mode = EntryMode
            /\ reply.status = "incomplete" <=>
                  (pc = "ret" /\ log = <<"read", "CodeManager", "return">>)
            /\ reply.status = "incomplete" =>
                  /\ \A e \in {"magic", "get_text", "do", "post", "refresh"} :
                        Calls(e) = 0
                  /\ sc_delimit_mode = ic.sc_delimit_mode
                  /\ dispatched = <<>>
                  /\ ~cm.built
            /\ reply.status # "incomplete" => (pc = "L51" \/ Calls("magic") = 1)

\* A text with an open block is rejected while the session is in semicolon
\* mode.
C14_Witness ==
    /\ ExecuteReturns
    /\ ~ic.is_complete
    /\ sc_delimit_mode
    /\ log = <<"read", "CodeManager", "return">>
    /\ result.status = "error"

\* The calls of the running handler other than the reads of the mode, the
\* tokenizer's construction and the images sent during the dispatch.
Steps == SelectSeq(log, LAMBDA e : e \notin {"read", "CodeManager", "send_image"})

StepsBeforeModeHandling == <<"magic", "get_text", "do", "post">>

\* C15 as stated: every non-silent dispatched submission emits the
\* notification once.
C15_AsClaimed ==
    (ExecuteReturns /\ Dispatched) =>
        Steps = StepsBeforeModeHandling
                \o (IF silent THEN <<>> ELSE <<"notify", "write">>)
                \o <<"refresh", "return">>

\* C15: every do_execute call that reaches dispatch performs, each once and
\* in this order: magics.magic, CodeManager.get_text, stata.do, magics.post,
\* when not silent the delimiter notification (only if the ending mode
\* differs from the starting mode) and the mode write, completions.refresh,
\* return; magics.post and completions.refresh run whatever rc the dispatch
\* returned.
C15_FixedOrderOfSteps ==
    (ExecuteReturns /\ Dispatched) =>
        Steps = StepsBeforeModeHandling
                \o (IF silent THEN <<>>
                      ELSE (IF cm.ends_sc # cm.sc_delimit_mode
                            THEN <<"notify">> ELSE <<>>) \o <<"write">>)
                \o <<"refresh", "return">>

\* A failed non-silent dispatch that switched the mode went through every
\* step.
C15_Witness ==
    /\ ExecuteReturns /\ Dispatched /\ ~silent /\ rc # 0
    /\ Steps = <<"magic", "get_text", "do", "post", "notify", "write",
                 "refresh", "return">>

\* C16: a silent submission that is dispatched emits no delimiter
\* notification and leaves sc_delimit_mode as it was, also when its text
\* ends in another mode than it started in; every submission is chunked in
\* the mode the last non-silent dispatched submission persisted.
C16_SilentKeepsMode ==
    (op = "do_execute" /\ cm.built) =>
        /\ silent =>
              /\ Notifications = <<>>
              /\ Calls("notify") = 0
              /\ Calls("write") = 0
              /\ sc_delimit_mode = cm.sc_delimit_mode
        /\ cm.sc_delimit_mode = (IF last_ends_shown = "none" THEN InitialMode
                                 ELSE last_ends_shown = "sc")
              \/ (pc = "ret" /\ ~silent)

\* After a silent submission that ended in semicolon mode, the next
\* submission is chunked in newline mode.
C16_Witness ==
    /\ op = "do_execute" /\ pc = "L60"
    /\ last_ends = "sc" /\ last_ends_shown = "none"
    /\ ~cm.sc_delimit_mode
    /\ plan.text_to_run # <<>>

\* C17: a non-silent dispatched submission whose dispatch returns a
\* non-zero rc still sets sc_delimit_mode to the chunker's ending mode,
\* still emits the notification when that mode differs from the starting
\* mode, and returns status "error".
C17_ModeHandlingIgnoresOutcome ==
    (ExecuteReturns /\ Dispatched /\ ~silent /\ rc # 0) =>
        /\ sc_delimit_mode = cm.ends_sc
        /\ Calls("write") = 1
        /\ cm.ends_sc # cm.sc_delimit_mode =>
              /\ Len(Notifications) = 1
              /\ Calls("notify") = 1
        /\ result.status = "error"

\* A failed submission switched the session to semicolon mode and said so.
C17_Witness ==
    /\ ExecuteReturns /\ Dispatched /\ ~silent /\ rc # 0
    /\ ~cm.sc_delimit_mode /\ sc_delimit_mode
    /\ Len(Notifications) = 1
    /\ result.status = "error"

====
